---- MODULE Spec2Model ----
(***************************************************************************)
(* A model of Water_Analyzer.py: the StatisticalAnalyzer main window, its  *)
(* dataset self.df, the stored results of perform_calculation, and the     *)
(* statistics, correlation and forecast computations.                      *)
(*                                                                         *)
(* Numbers are exact rationals [n, d] (d > 0, lowest terms): the model     *)
(* computes in real arithmetic where the program computes in float64.      *)
(* Column names: "Time" is the timestamp column, "Activity" the category   *)
(* column and "Volume" the numeric value column of the source.             *)
(***************************************************************************)
EXTENDS Integers, Sequences, FiniteSets, TLC

VARIABLES
    df,             \* self.df: the held frame (df.none when it is None)
    current_file,   \* self.current_file
    buttons,        \* enable_all_buttons: the analysis and plot buttons
    btn_calculate,  \* self.btn_calculate.isEnabled()
    combo_items,    \* the items of the three combo boxes
    combo_single,   \* self.combo_single.currentText()
    combo_corr1,    \* self.combo_corr1.currentText()
    combo_corr2,    \* self.combo_corr2.currentText()
    single_col,     \* self.single_col
    corr_col1,      \* self.corr_col1
    corr_col2,      \* self.corr_col2
    stats_result,   \* self.stats_result (has = FALSE: no such attribute)
    corr_result,    \* self.corr_result  (has = FALSE: no such attribute)
    plot_windows,   \* self.plot_windows
    text_windows,   \* self.text_windows
    main_open,      \* the main window is open
    last            \* the last handler that ran and what it showed the user

vars == <<df, current_file, buttons, btn_calculate, combo_items, combo_single,
          combo_corr1, combo_corr2, single_col, corr_col1, corr_col2,
          stats_result, corr_result, plot_windows, text_windows, main_open, last>>

(***************************************************************************)
(* Bounds of the model.                                                    *)
(***************************************************************************)
\* rows of a generated sheet
MaxRows == 2
\* length of a generated series sheet (forecast inputs)
MaxLen == 15
\* largest lag of a direct open_forecast_plot call
MaxLag == 7
\* windows kept in plot_windows and in text_windows
MaxWindows == 1

(***************************************************************************)
(* Exact rational arithmetic.                                              *)
(***************************************************************************)
Abs(i) == IF i < 0 THEN -i ELSE i

RECURSIVE Gcd(_, _)
Gcd(a, b) == IF b = 0 THEN a ELSE Gcd(b, a % b)

Rat(n, d) ==
    LET s == IF d < 0 THEN -1 ELSE 1
        g == Gcd(Abs(n), Abs(d))
    IN  [n |-> (s * n) \div g, d |-> (s * d) \div g]

RInt(i) == [n |-> i, d |-> 1]
RAdd(a, b) == Rat(a.n * b.d + b.n * a.d, a.d * b.d)
RSub(a, b) == Rat(a.n * b.d - b.n * a.d, a.d * b.d)
RMul(a, b) == Rat(a.n * b.n, a.d * b.d)
RDivInt(a, i) == Rat(a.n, a.d * i)
RLess(a, b) == a.n * b.d < b.n * a.d
RLeq(a, b) == a.n * b.d <= b.n * a.d
RAbs(a) == [n |-> Abs(a.n), d |-> a.d]

RECURSIVE RSum(_)
RSum(s) == IF s = <<>> THEN RInt(0) ELSE RAdd(Head(s), RSum(Tail(s)))

(***************************************************************************)
(* Cells and columns.  A cell is [k, n, d]: a number n/d, NaN (a missing   *)
(* number or an empty sheet cell), a timestamp n, NaT (a missing           *)
(* timestamp) or a text that is neither a number nor a date.               *)
(***************************************************************************)
Num(i) == [k |-> "num", n |-> i, d |-> 1]
NumR(r) == [k |-> "num", n |-> r.n, d |-> r.d]
NaN == [k |-> "nan", n |-> 0, d |-> 1]
Time(i) == [k |-> "time", n |-> i, d |-> 1]
NaT == [k |-> "nat", n |-> 0, d |-> 1]
Text == [k |-> "text", n |-> 0, d |-> 1]
Val(c) == [n |-> c.n, d |-> c.d]

Kinds(col) == {col[i].k : i \in 1..Len(col)}
Vals(col) == [i \in 1..Len(col) |-> Val(col[i])]

\* Series.notna(): NaN, NaT and None are missing; every other value is not.
NotNa(c) == c.k \notin {"nan", "nat"}

\* Series.dropna()
DropNa(col) == SelectSeq(col, NotNa)

\* The dtype of a column of numbers: int64, or float64 once a NaN is in it.
NumericDtype(col) ==
    IF Len(col) > 0 /\ Kinds(col) \subseteq {"num"} THEN "int64" ELSE "float64"

\* pd.api.types.is_numeric_dtype
IsNumericDtype(dt) == dt \in {"int64", "float64"}

\* The dtype pandas infers for a column of sheet cells.
InferDtype(col) ==
    IF Len(col) = 0 THEN "object"
    ELSE IF Kinds(col) \subseteq {"num"} THEN "int64"
    ELSE IF Kinds(col) \subseteq {"num", "nan"} THEN "float64"
    ELSE IF Kinds(col) \subseteq {"time", "nat", "nan"} THEN "datetime64"
    ELSE "object"

(***************************************************************************)
(* Frames.  NoFrame is self.df = None.                                     *)
(***************************************************************************)
NoFrame == [none |-> TRUE, names |-> <<>>, dtypes |-> <<>>, cols |-> <<>>]

expected_columns == <<"Time", "Activity", "Volume">>

Columns(f) == {f.names[i] : i \in 1..Len(f.names)}
ColIndex(f, name) == CHOOSE i \in 1..Len(f.names) : f.names[i] = name
Col(f, name) == f.cols[ColIndex(f, name)]
Dtype(f, name) == f.dtypes[ColIndex(f, name)]
NRows(f) == IF Len(f.cols) = 0 THEN 0 ELSE Len(f.cols[1])

SetCol(f, name, col, dt) ==
    [f EXCEPT !.cols[ColIndex(f, name)] = col, !.dtypes[ColIndex(f, name)] = dt]

\* pd.read_excel: the sheet's columns with inferred dtypes; an empty cell of
\* a date column reads as NaT.
ReadCell(dt, c) == IF dt = "datetime64" /\ c.k = "nan" THEN NaT ELSE c
pd_read_excel(file) ==
    LET dts == [i \in 1..Len(file.cols) |-> InferDtype(file.cols[i])]
    IN  [none |-> FALSE,
         names |-> file.names,
         dtypes |-> dts,
         cols |-> [i \in 1..Len(file.cols) |->
                     [j \in 1..Len(file.cols[i]) |-> ReadCell(dts[i], file.cols[i][j])]]]

\* pd.to_datetime(column): raises on a text that is no date.
ToDatetimeRaises(col) == "text" \in Kinds(col)
ToDatetimeCell(c) ==
    IF c.k \in {"time", "num"} THEN Time(c.n) ELSE NaT
pd_to_datetime(col) == [i \in 1..Len(col) |-> ToDatetimeCell(col[i])]

\* pd.to_numeric(column, errors='coerce'): what is no number becomes NaN.
CoerceCell(c) == IF c.k = "num" THEN c ELSE NaN
pd_to_numeric_coerce(col) == [i \in 1..Len(col) |-> CoerceCell(col[i])]

\* Series.mean(): the mean of the values that are not missing, NaN if none.
Mean(col) ==
    LET d == DropNa(col)
    IN  IF Len(d) = 0 THEN NaN
        ELSE NumR(RDivInt(RSum(Vals(d)), Len(d)))

\* Series.fillna(value): every missing cell becomes value.
FillNa(col, value) == [i \in 1..Len(col) |-> IF NotNa(col[i]) THEN col[i] ELSE value]

(***************************************************************************)
(* The sheets the user can pick in the file dialog.  A sheet is            *)
(* [name, readable, names, cols]; pd.read_excel raises on an unreadable    *)
(* one.                                                                    *)
(***************************************************************************)
foreign_columns == <<"Date", "Kind", "Litres">>

\* All sequences over cells of length 0..n.
RECURSIVE SeqsUpTo(_, _)
SeqsUpTo(cells, n) ==
    IF n = 0 THEN {<<>>}
    ELSE LET shorter == SeqsUpTo(cells, n - 1)
         IN  shorter \cup {Append(s, c) : s \in {t \in shorter : Len(t) = n - 1}, c \in cells}

\* The timestamp column of a sheet of n rows: dates 1..n ("dates"), the same
\* with the last cell empty ("gap") or holding a text that is no date ("text").
TimeColumn(n, tk) ==
    [i \in 1..n |-> IF i = n /\ tk = "gap" THEN NaN
                    ELSE IF i = n /\ tk = "text" THEN Text
                    ELSE Time(i)]

\* The category column: labels ("labels"), numeric codes ("codes"), or labels
\* with the first cell empty ("gap").
CategoryColumn(n, ck) ==
    [i \in 1..n |-> IF ck = "codes" THEN Num(i)
                    ELSE IF i = 1 /\ ck = "gap" THEN NaN
                    ELSE Text]

\* The path of a sheet: it tells the sheets apart.
FileName(hdr, tk, ck, values) == [hdr |-> hdr, tk |-> tk, ck |-> ck, values |-> values]
NoFile == FileName("None", "dates", "labels", <<>>)

Sheet(hdr, tk, ck, values) ==
    [name |-> FileName(hdr, tk, ck, values),
     readable |-> TRUE,
     names |-> IF hdr = "expected" THEN expected_columns ELSE foreign_columns,
     cols |-> <<TimeColumn(Len(values), tk), CategoryColumn(Len(values), ck), values>>]

\* A sheet with a fourth column after the three expected ones, and one with
\* only two columns.
WideSheet(values) ==
    [name |-> FileName("wide", "dates", "labels", values),
     readable |-> TRUE,
     names |-> expected_columns \o <<"Note">>,
     cols |-> <<TimeColumn(Len(values), "dates"), CategoryColumn(Len(values), "labels"),
                values, CategoryColumn(Len(values), "labels")>>]
NarrowSheet(values) ==
    [name |-> FileName("narrow", "dates", "labels", values),
     readable |-> TRUE,
     names |-> <<"Date", "Litres">>,
     cols |-> <<TimeColumn(Len(values), "dates"), values>>]
Unreadable ==
    [name |-> FileName("unreadable", "dates", "labels", <<>>), readable |-> FALSE, names |-> <<>>, cols |-> <<>>]

\* A series sheet: n rows whose values are 1, 2, ..., n ("ramp") or repeat
\* 1, 2, 3 ("saw").
SeriesValues(n, shape) ==
    [i \in 1..n |-> IF shape = "ramp" THEN Num(i) ELSE Num(1 + ((i - 1) % 3))]
SeriesSheet(n, shape) == Sheet("expected", "dates", "labels", SeriesValues(n, shape))

(***************************************************************************)
(* calculate_statistics                                                    *)
(***************************************************************************)
Sorted(values) == SortSeq(values, RLess)

\* (The median taken as the upper of the two middle values.)
MedianUpperMiddle(values) == Sorted(values)[(Len(values) \div 2) + 1]

\* Series.median(): the middle of the sorted values, the mean of the two
\* middle ones for an even count.
Median(values) ==
    LET s == Sorted(values)
        n == Len(s)
    IN  IF n % 2 = 1 THEN s[(n + 1) \div 2]
        ELSE RDivInt(RAdd(s[n \div 2], s[(n \div 2) + 1]), 2)

\* (The quantile without interpolation, the sorted value below the position.)
QuantileLower(values, a, b) == Sorted(values)[(((Len(values) - 1) * a) \div b) + 1]

\* Series.quantile(a/b): linear interpolation between the two sorted values
\* around position (n - 1) * a / b.
Quantile(values, a, b) ==
    LET s == Sorted(values)
        n == Len(s)
        lo == ((n - 1) * a) \div b
        rem == ((n - 1) * a) % b
    IN  IF rem = 0 THEN s[lo + 1]
        ELSE RAdd(s[lo + 1], RMul(Rat(rem, b), RSub(s[lo + 2], s[lo + 1])))

\* Series.mode(): the most frequent values, in ascending order.
Frequency(values, v) == Cardinality({i \in 1..Len(values) : values[i] = v})
Modes(values) ==
    LET s == Sorted(values)
        top == CHOOSE m \in 1..Len(s) :
                   /\ \E i \in 1..Len(s) : Frequency(s, s[i]) = m
                   /\ \A i \in 1..Len(s) : Frequency(s, s[i]) <= m
        firsts == {i \in 1..Len(s) : (i = 1 \/ s[i - 1] # s[i]) /\ Frequency(s, s[i]) = top}
    IN  [k \in 1..Cardinality(firsts) |->
            s[CHOOSE i \in firsts : Cardinality({j \in firsts : j < i}) = k - 1]]

\* (The variance of a single value taken as 0.)
VarianceZeroForOne(values) ==
    LET n == Len(values)
        m == RDivInt(RSum(values), n)
        sq == [i \in 1..n |-> RMul(RSub(values[i], m), RSub(values[i], m))]
    IN  IF n < 2 THEN Num(0) ELSE NumR(RDivInt(RSum(sq), n - 1))

\* Series.var(ddof=1): the sum of squared deviations over n - 1, NaN for n < 2.
Variance(values) ==
    LET n == Len(values)
        m == RDivInt(RSum(values), n)
        sq == [i \in 1..n |-> RMul(RSub(values[i], m), RSub(values[i], m))]
    IN  IF n < 2 THEN NaN ELSE NumR(RDivInt(RSum(sq), n - 1))

\* (data - c).abs() as a sequence
AbsDeviations(values, c) == [i \in 1..Len(values) |-> RAbs(RSub(values[i], c))]

\* The validation at the head of calculate_statistics: the message of the
\* ValueError it raises, "" when it raises none.
StatisticsError(frame, column) ==
    IF column \notin Columns(frame) THEN "not found"
    ELSE IF Len(DropNa(Col(frame, column))) = 0 THEN "no data"
    ELSE IF ~IsNumericDtype(Dtype(frame, column)) THEN "not numeric"
    ELSE IF Len(DropNa(pd_to_numeric_coerce(DropNa(Col(frame, column))))) = 0
         THEN "not convertible"
    ELSE ""

\* len(data) > 2: skewness, kurtosis and the label of the skewness are
\* computed.
HasShapeFromTwo(n) == n >= 2
HasShape(n) == n > 2

\* The dictionary calculate_statistics returns for the values of a column.
\* std is kept as the variance it is the root of; skewness and kurtosis are
\* kept as present or absent.
Summary(values) ==
    LET n == Len(values)
        s == Sorted(values)
        mean == RDivInt(RSum(values), n)
        median == Median(values)
        modes == Modes(values)
        q1 == Quantile(values, 1, 4)
        q2 == Quantile(values, 1, 2)
        q3 == Quantile(values, 3, 4)
        iqr == RSub(q3, q1)
        variance == Variance(values)
    IN  [raised |-> FALSE,
         error |-> "",
         count |-> n,
         median |-> median,
         mean |-> mean,
         min |-> s[1],
         max |-> s[n],
         sum |-> RSum(values),
         range |-> RSub(s[n], s[1]),
         mode |-> modes[1],
         extra_modes |-> Tail(modes),
         q1 |-> q1,
         q2 |-> q2,
         q3 |-> q3,
         iqr |-> iqr,
         outlier_lower |-> RSub(q1, RMul(Rat(3, 2), iqr)),
         outlier_upper |-> RAdd(q3, RMul(Rat(3, 2), iqr)),
         mad_mean |-> RDivInt(RSum(AbsDeviations(values, mean)), n),
         mad_median |-> Median(AbsDeviations(values, median)),
         variance |-> variance,
         std_squared |-> variance,
         has_skewness |-> HasShape(n),
         has_kurtosis |-> HasShape(n),
         has_skew_label |-> HasShape(n),
         has_cv |-> mean # RInt(0)]

Raised(msg) == [raised |-> TRUE, error |-> msg]

\* calculate_statistics(column) on a frame: the summary, or the ValueError.
calculate_statistics(frame, column) ==
    IF StatisticsError(frame, column) # "" THEN Raised(StatisticsError(frame, column))
    ELSE Summary(Vals(DropNa(pd_to_numeric_coerce(DropNa(Col(frame, column))))))

(***************************************************************************)
(* calculate_correlation                                                   *)
(***************************************************************************)
\* The int64 that pd.to_numeric gives for NaT: the least int64, a number
\* (not a missing value) below every timestamp.  The model puts it below
\* every timestamp of its sheets.
iNaT == -10

\* pd.to_numeric(pd.to_datetime(column)): the timestamps as integers.
EncodeTimeCell(c) == IF c.k = "nat" THEN Num(iNaT) ELSE Num(c.n)
EncodeTime(col) ==
    [i \in 1..Len(col) |-> EncodeTimeCell(ToDatetimeCell(col[i]))]

\* data1 / data2 of calculate_correlation: the column, encoded when it is
\* the timestamp column.
CorrelationData(frame, name) ==
    IF name = "Time" THEN EncodeTime(Col(frame, name)) ELSE Col(frame, name)

\* The rows that are not missing in either column (mask).
Mask(data1, data2) == {i \in 1..Len(data1) : NotNa(data1[i]) /\ NotNa(data2[i])}
Clean(data, mask) ==
    LET keep == [i \in 1..Len(data) |-> i \in mask]
        RECURSIVE Pick(_)
        Pick(i) == IF i > Len(data) THEN <<>>
                   ELSE IF keep[i] THEN <<data[i]>> \o Pick(i + 1) ELSE Pick(i + 1)
    IN  Pick(1)

\* (Pearson with the second variance taken from the first sequence.)
PearsonOneVariance(xs, ys) ==
    LET n == Len(xs)
        mx == RDivInt(RSum(xs), n)
        my == RDivInt(RSum(ys), n)
        sxy == RSum([i \in 1..n |-> RMul(RSub(xs[i], mx), RSub(ys[i], my))])
        sxx == RSum([i \in 1..n |-> RMul(RSub(xs[i], mx), RSub(xs[i], mx))])
    IN  IF sxx.n = 0
        THEN [nan |-> TRUE, sign |-> 0, sq |-> RInt(0)]
        ELSE [nan |-> FALSE,
              sign |-> IF sxy.n > 0 THEN 1 ELSE IF sxy.n < 0 THEN -1 ELSE 0,
              sq |-> Rat(RMul(sxy, sxy).n * RMul(sxx, sxx).d,
                         RMul(sxy, sxy).d * RMul(sxx, sxx).n)]

\* Series.corr: Pearson's r of two sequences of numbers as [nan, sign, sq],
\* sq the square of r; r is NaN when one of the sequences is constant.
Pearson(xs, ys) ==
    LET n == Len(xs)
        mx == RDivInt(RSum(xs), n)
        my == RDivInt(RSum(ys), n)
        sxy == RSum([i \in 1..n |-> RMul(RSub(xs[i], mx), RSub(ys[i], my))])
        sxx == RSum([i \in 1..n |-> RMul(RSub(xs[i], mx), RSub(xs[i], mx))])
        syy == RSum([i \in 1..n |-> RMul(RSub(ys[i], my), RSub(ys[i], my))])
    IN  IF sxx.n = 0 \/ syy.n = 0
        THEN [nan |-> TRUE, sign |-> 0, sq |-> RInt(0)]
        ELSE [nan |-> FALSE,
              sign |-> IF sxy.n > 0 THEN 1 ELSE IF sxy.n < 0 THEN -1 ELSE 0,
              sq |-> Rat(RMul(sxy, sxy).n * RMul(sxx, syy).d,
                         RMul(sxy, sxy).d * RMul(sxx, syy).n)]

\* abs(r) >= a/b; every comparison with NaN is false.
AbsAtLeast(r, a, b) == ~r.nan /\ r.sq.n * b * b >= a * a * r.sq.d

\* interpret_correlation
interpret_correlation(r) ==
    IF AbsAtLeast(r, 9, 10) THEN "very strong"
    ELSE IF AbsAtLeast(r, 7, 10) THEN "strong"
    ELSE IF AbsAtLeast(r, 5, 10) THEN "moderate"
    ELSE IF AbsAtLeast(r, 3, 10) THEN "weak"
    ELSE "very weak or none"

\* get_correlation_interpretation
get_correlation_interpretation(r) ==
    IF AbsAtLeast(r, 9, 10) THEN "practically linear"
    ELSE IF AbsAtLeast(r, 7, 10) THEN "strong dependence"
    ELSE IF AbsAtLeast(r, 5, 10) THEN "noticeable dependence"
    ELSE IF AbsAtLeast(r, 3, 10) THEN "weak dependence"
    ELSE IF AbsAtLeast(r, 1, 10) THEN "very weak dependence"
    ELSE "no significant relation"

\* (t_stat taken as NaN when 1 - r ** 2 is zero.)
TStatAboveFinite(r, n, a, b) ==
    IF r.nan \/ r.sq = RInt(1) THEN FALSE
    ELSE r.sq.n * (n - 2) * b * b > a * a * (r.sq.d - r.sq.n)

\* t_stat > a/b for t_stat = abs(r) * sqrt((n - 2) / (1 - r ** 2)): infinite
\* when r is 1 (the conditional) or -1 (a float division by zero), NaN when
\* r is NaN.
TStatAbove(r, n, a, b) ==
    IF r.nan THEN FALSE
    ELSE IF r.sq = RInt(1) THEN TRUE
    ELSE r.sq.n * (n - 2) * b * b > a * a * (r.sq.d - r.sq.n)

\* (estimate_p_value without its check of n.)
estimate_p_value_unguarded(r, n) ==
    IF TStatAbove(r, n, 35, 10) THEN "< 0.001"
    ELSE IF TStatAbove(r, n, 26, 10) THEN "< 0.01"
    ELSE IF TStatAbove(r, n, 196, 100) THEN "< 0.05"
    ELSE "> 0.05"

\* estimate_p_value
estimate_p_value(r, n) ==
    IF n <= 2 THEN "not enough data"
    ELSE IF TStatAbove(r, n, 35, 10) THEN "< 0.001"
    ELSE IF TStatAbove(r, n, 26, 10) THEN "< 0.01"
    ELSE IF TStatAbove(r, n, 196, 100) THEN "< 0.05"
    ELSE "> 0.05"

ErrorRecord(msg) == [is_error |-> TRUE, error |-> msg]

\* What the body of calculate_correlation raises, "" when nothing: a column
\* that is not in the frame, a timestamp column pd.to_datetime cannot parse,
\* or, past the length check, a column Series.corr cannot turn into floats.
CorrelationRaises(frame, col1, col2) ==
    IF col1 \notin Columns(frame) \/ col2 \notin Columns(frame) THEN "KeyError"
    ELSE IF \E c \in {col1, col2} : c = "Time" /\ ToDatetimeRaises(Col(frame, c))
         THEN "not a date"
    ELSE ""
CorrRaises(frame, col1, col2) ==
    \E c \in {col1, col2} : c # "Time" /\ ~IsNumericDtype(Dtype(frame, c))

\* calculate_correlation(col1, col2) on a frame: it returns an error record
\* for whatever its body raises.
calculate_correlation(frame, col1, col2) ==
    IF col1 = "" \/ col2 = "" THEN ErrorRecord("no columns selected")
    ELSE IF CorrelationRaises(frame, col1, col2) # ""
         THEN ErrorRecord(CorrelationRaises(frame, col1, col2))
    ELSE
        LET data1 == CorrelationData(frame, col1)
            data2 == CorrelationData(frame, col2)
            mask == Mask(data1, data2)
            data1_clean == Clean(data1, mask)
            data2_clean == Clean(data2, mask)
        IN  IF Len(data1_clean) < 2 THEN ErrorRecord("not enough data")
            ELSE IF CorrRaises(frame, col1, col2) THEN ErrorRecord("could not convert")
            ELSE LET correlation == Pearson(Vals(data1_clean), Vals(data2_clean))
                 IN  [is_error |-> FALSE,
                      col1 |-> col1,
                      col2 |-> col2,
                      r |-> correlation,
                      strength |-> interpret_correlation(correlation),
                      interpretation |-> get_correlation_interpretation(correlation),
                      n_pairs |-> Len(data1_clean),
                      p_value |-> estimate_p_value(correlation, Len(data1_clean))]

(***************************************************************************)
(* open_forecast_plot: validation, lag features, chronological split       *)
(***************************************************************************)
\* The lag every forecast button passes.
Lag == 7

\* validate_numeric_column: the warning it shows, "" when the column passes.
validate_numeric_column(frame, column) ==
    IF column \notin Columns(frame) THEN "not found"
    ELSE IF ~IsNumericDtype(Dtype(frame, column)) THEN "not numeric"
    ELSE IF Len(DropNa(Col(frame, column))) = 0 THEN "no data"
    ELSE ""

\* validate_two_columns
validate_two_columns(frame, col1, col2) ==
    IF col1 \notin Columns(frame) \/ col2 \notin Columns(frame) THEN "not found"
    ELSE IF col1 = col2 THEN "same column"
    ELSE ""

\* The loop that builds X and y: row i of X is data[i : i + lag], y[i] is
\* data[i + lag], for i in range(len(data) - lag)  (rows numbered from 1 here).
LagRowsShifted(data, lag) == [i \in 1..(Len(data) - lag) |-> SubSeq(data, i + 1, i + lag)]
LagRows(data, lag) == [i \in 1..(Len(data) - lag) |-> SubSeq(data, i, i + lag - 1)]
LagLabels(data, lag) == [i \in 1..(Len(data) - lag) |-> data[i + lag]]

\* train_test_split(X, y, test_size=0.2, shuffle=False): the number of test
\* rows is ceil(0.2 * n) and the training rows are the rest; in float64
\* 0.2 * n rounds to n / 5 whenever 5 divides n, so the ceiling is that of
\* the exact quotient.
NTestFloor(n) == n \div 5
NTest(n) == (n + 4) \div 5
NTrain(n) == n - NTest(n)
\* It raises when the training set would be empty.
SplitRaises(n) == NTrain(n) = 0
TrainPartFromEnd(rows) == SubSeq(rows, NTest(Len(rows)) + 1, Len(rows))
TrainPart(rows) == SubSeq(rows, 1, NTrain(Len(rows)))
TestPart(rows) == SubSeq(rows, NTrain(Len(rows)) + 1, NTrain(Len(rows)) + NTest(Len(rows)))

\* The length check: len(data) < lag * 2.
TooShortForLag(data, lag) == Len(data) < lag
TooShort(data, lag) == Len(data) < lag * 2

\* What one call of open_forecast_plot did, step by step.
NoRun ==
    [checked |-> FALSE, built |-> FALSE, split |-> FALSE, fitted |-> FALSE,
     metrics |-> FALSE, shown |-> FALSE, lag |-> 0, data |-> <<>>,
     X |-> <<>>, y |-> <<>>, X_train |-> <<>>, X_test |-> <<>>,
     y_train |-> <<>>, y_test |-> <<>>]

\* The body of open_forecast_plot on the values of the column, once the
\* column has passed validate_numeric_column.
ForecastRun(data, lag) ==
    LET X == LagRows(data, lag)
        y == LagLabels(data, lag)
    IN  IF TooShort(data, lag)
        THEN [NoRun EXCEPT !.checked = TRUE, !.lag = lag, !.data = data]
        ELSE IF SplitRaises(Len(X))
        THEN [NoRun EXCEPT !.checked = TRUE, !.lag = lag, !.data = data,
                           !.built = TRUE, !.X = X, !.y = y]
        ELSE [checked |-> TRUE, built |-> TRUE, split |-> TRUE, fitted |-> TRUE,
              metrics |-> TRUE, shown |-> TRUE, lag |-> lag, data |-> data,
              X |-> X, y |-> y,
              X_train |-> TrainPart(X), X_test |-> TestPart(X),
              y_train |-> TrainPart(y), y_test |-> TestPart(y)]

\* The dialog open_forecast_plot ends with: "" when the window opened.
ForecastDialog(run) ==
    IF ~run.built THEN "warning: not enough data"
    ELSE IF ~run.split THEN "critical: forecast error"
    ELSE ""

(***************************************************************************)
(* load_file                                                               *)
(***************************************************************************)
\* The value column after pd.to_numeric(errors='coerce') and
\* fillna(mean, inplace=True).
ImputedColumn(col) ==
    FillNa(pd_to_numeric_coerce(col), Mean(pd_to_numeric_coerce(col)))

\* The frame after the renaming of its columns to expected_columns.
Renamed(raw) == [raw EXCEPT !.names = expected_columns]

\* The frame after the type conversions and the imputation.
Converted(frame) ==
    LET timed == SetCol(frame, "Time", pd_to_datetime(Col(frame, "Time")), "datetime64")
        volume == ImputedColumn(Col(frame, "Volume"))
    IN  SetCol(timed, "Volume", volume, NumericDtype(volume))

\* The try block of load_file on a sheet, from the frame held before: the
\* frame held after, and the message of the exception ("" when none).
\* self.df is assigned by the first statement, before the checks.
LoadOutcome(held, file) ==
    IF ~file.readable THEN [df |-> held, error |-> "cannot read the file"]
    ELSE LET raw == pd_read_excel(file)
         IN  IF Len(raw.names) # 3
             THEN [df |-> raw, error |-> "the file must hold exactly 3 columns"]
             ELSE IF ToDatetimeRaises(Col(Renamed(raw), "Time"))
             THEN [df |-> Renamed(raw), error |-> "unknown datetime format"]
             ELSE [df |-> Converted(Renamed(raw)), error |-> ""]

(***************************************************************************)
(* The state machine                                                       *)
(***************************************************************************)
NoAttr == [has |-> FALSE]
Stored(v) == [has |-> TRUE, value |-> v]
Unset == "<unset>"
NoData == [none |-> TRUE]

Init ==
    /\ df = NoFrame
    /\ current_file = NoFile
    /\ buttons = FALSE
    /\ btn_calculate = FALSE
    /\ combo_items = <<>>
    /\ combo_single = ""
    /\ combo_corr1 = ""
    /\ combo_corr2 = ""
    /\ single_col = Unset
    /\ corr_col1 = Unset
    /\ corr_col2 = Unset
    /\ stats_result = NoAttr
    /\ corr_result = NoAttr
    /\ plot_windows = <<>>
    /\ text_windows = <<>>
    /\ main_open = TRUE
    /\ last = [op |-> "__init__", outcome |-> "ok", data |-> NoData]

\* load_file with the file dialog cancelled: nothing is done.
LoadCancelled ==
    /\ main_open
    /\ last' = [op |-> "load_file", outcome |-> "cancelled", data |-> NoData]
    /\ UNCHANGED <<df, current_file, buttons, btn_calculate, combo_items, combo_single,
                   combo_corr1, combo_corr2, single_col, corr_col1, corr_col2,
                   stats_result, corr_result, plot_windows, text_windows, main_open>>

\* (load_file enabling the buttons before the sheet is read and checked.)
LoadFailsButtonsEnabled(file) ==
    /\ main_open
    /\ LoadOutcome(df, file).error # ""
    /\ df' = LoadOutcome(df, file).df
    /\ buttons' = TRUE
    /\ btn_calculate' = TRUE
    /\ last' = [op |-> "load_file", outcome |-> "critical",
                data |-> [file |-> file.name, error |-> LoadOutcome(df, file).error]]
    /\ UNCHANGED <<current_file, combo_items, combo_single,
                   combo_corr1, combo_corr2, single_col, corr_col1, corr_col2,
                   stats_result, corr_result, plot_windows, text_windows, main_open>>

\* load_file on a sheet that fails: the exception is shown, and whatever the
\* try block had assigned stays.
LoadFails(file) ==
    /\ main_open
    /\ LoadOutcome(df, file).error # ""
    /\ df' = LoadOutcome(df, file).df
    /\ last' = [op |-> "load_file", outcome |-> "critical",
                data |-> [file |-> file.name, error |-> LoadOutcome(df, file).error]]
    /\ UNCHANGED <<current_file, buttons, btn_calculate, combo_items, combo_single,
                   combo_corr1, combo_corr2, single_col, corr_col1, corr_col2,
                   stats_result, corr_result, plot_windows, text_windows, main_open>>

\* load_file on a sheet that loads: the frame, the file name, the combo boxes
\* (update_comboboxes) and the buttons (enable_all_buttons) are set.
LoadSucceeds(file) ==
    /\ main_open
    /\ LoadOutcome(df, file).error = ""
    /\ df' = LoadOutcome(df, file).df
    /\ current_file' = file.name
    /\ combo_items' = df'.names
    /\ combo_single' = "Volume"
    /\ combo_corr1' = "Volume"
    /\ combo_corr2' = "Time"
    /\ buttons' = TRUE
    /\ btn_calculate' = TRUE
    /\ last' = [op |-> "load_file", outcome |-> "ok", data |-> [file |-> file.name]]
    /\ UNCHANGED <<single_col, corr_col1, corr_col2, stats_result, corr_result,
                   plot_windows, text_windows, main_open>>

\* The user picks another item in one of the combo boxes.
SelectSingle(c) ==
    /\ main_open
    /\ c \in {combo_items[i] : i \in 1..Len(combo_items)}
    /\ c # combo_single
    /\ combo_single' = c
    /\ UNCHANGED <<df, current_file, buttons, btn_calculate, combo_items,
                   combo_corr1, combo_corr2, single_col, corr_col1, corr_col2,
                   stats_result, corr_result, plot_windows, text_windows, main_open, last>>
SelectCorr1(c) ==
    /\ main_open
    /\ c \in {combo_items[i] : i \in 1..Len(combo_items)}
    /\ c # combo_corr1
    /\ combo_corr1' = c
    /\ UNCHANGED <<df, current_file, buttons, btn_calculate, combo_items,
                   combo_single, combo_corr2, single_col, corr_col1, corr_col2,
                   stats_result, corr_result, plot_windows, text_windows, main_open, last>>
SelectCorr2(c) ==
    /\ main_open
    /\ c \in {combo_items[i] : i \in 1..Len(combo_items)}
    /\ c # combo_corr2
    /\ combo_corr2' = c
    /\ UNCHANGED <<df, current_file, buttons, btn_calculate, combo_items,
                   combo_single, combo_corr1, single_col, corr_col1, corr_col2,
                   stats_result, corr_result, plot_windows, text_windows, main_open, last>>

\* (perform_calculation with the encoded timestamps written back into the
\* frame by calculate_correlation.)
perform_calculation_encoding_in_place ==
    /\ main_open
    /\ btn_calculate
    /\ single_col' = combo_single
    /\ corr_col1' = combo_corr1
    /\ corr_col2' = combo_corr2
    /\ IF combo_single = "Activity" \/ combo_single = "Time"
       THEN /\ last' = [op |-> "perform_calculation", outcome |-> "warning", data |-> NoData]
            /\ UNCHANGED <<df, stats_result, corr_result>>
       ELSE IF calculate_statistics(df, combo_single).raised
       THEN /\ last' = [op |-> "perform_calculation", outcome |-> "critical",
                        data |-> [error |-> calculate_statistics(df, combo_single).error]]
            /\ UNCHANGED <<df, stats_result, corr_result>>
       ELSE /\ stats_result' = Stored(calculate_statistics(df, combo_single))
            /\ corr_result' = Stored(calculate_correlation(df, combo_corr1, combo_corr2))
            /\ df' = IF "Time" \in {combo_corr1, combo_corr2} /\ "Time" \in Columns(df)
                     THEN SetCol(df, "Time", EncodeTime(Col(df, "Time")), "int64")
                     ELSE df
            /\ last' = [op |-> "perform_calculation", outcome |-> "ok", data |-> NoData]
    /\ UNCHANGED <<current_file, buttons, btn_calculate, combo_items, combo_single,
                   combo_corr1, combo_corr2, plot_windows, text_windows, main_open>>

\* (perform_calculation with the correlation computed and stored before the
\* statistics.)
perform_calculation_correlation_first ==
    /\ main_open
    /\ btn_calculate
    /\ single_col' = combo_single
    /\ corr_col1' = combo_corr1
    /\ corr_col2' = combo_corr2
    /\ IF combo_single = "Activity" \/ combo_single = "Time"
       THEN /\ last' = [op |-> "perform_calculation", outcome |-> "warning", data |-> NoData]
            /\ UNCHANGED <<stats_result, corr_result>>
       ELSE IF calculate_statistics(df, combo_single).raised
       THEN /\ last' = [op |-> "perform_calculation", outcome |-> "critical",
                        data |-> [error |-> calculate_statistics(df, combo_single).error]]
            /\ corr_result' = Stored(calculate_correlation(df, combo_corr1, combo_corr2))
            /\ UNCHANGED stats_result
       ELSE /\ stats_result' = Stored(calculate_statistics(df, combo_single))
            /\ corr_result' = Stored(calculate_correlation(df, combo_corr1, combo_corr2))
            /\ last' = [op |-> "perform_calculation", outcome |-> "ok", data |-> NoData]
    /\ UNCHANGED <<df, current_file, buttons, btn_calculate, combo_items, combo_single,
                   combo_corr1, combo_corr2, plot_windows, text_windows, main_open>>

\* (perform_calculation with calculate_correlation raising what it reports
\* as an error record.)
perform_calculation_correlation_raises ==
    /\ main_open
    /\ btn_calculate
    /\ single_col' = combo_single
    /\ corr_col1' = combo_corr1
    /\ corr_col2' = combo_corr2
    /\ IF combo_single = "Activity" \/ combo_single = "Time"
       THEN /\ last' = [op |-> "perform_calculation", outcome |-> "warning", data |-> NoData]
            /\ UNCHANGED <<stats_result, corr_result>>
       ELSE IF calculate_statistics(df, combo_single).raised
       THEN /\ last' = [op |-> "perform_calculation", outcome |-> "critical",
                        data |-> [error |-> calculate_statistics(df, combo_single).error]]
            /\ UNCHANGED <<stats_result, corr_result>>
       ELSE IF calculate_correlation(df, combo_corr1, combo_corr2).is_error
       THEN /\ stats_result' = Stored(calculate_statistics(df, combo_single))
            /\ last' = [op |-> "perform_calculation", outcome |-> "critical",
                        data |-> [error |-> calculate_correlation(df, combo_corr1, combo_corr2).error]]
            /\ UNCHANGED corr_result
       ELSE /\ stats_result' = Stored(calculate_statistics(df, combo_single))
            /\ corr_result' = Stored(calculate_correlation(df, combo_corr1, combo_corr2))
            /\ last' = [op |-> "perform_calculation", outcome |-> "ok", data |-> NoData]
    /\ UNCHANGED <<df, current_file, buttons, btn_calculate, combo_items, combo_single,
                   combo_corr1, combo_corr2, plot_windows, text_windows, main_open>>

\* perform_calculation.  The selection is stored first; a timestamp or
\* category column ends it with a warning; an exception of
\* calculate_statistics ends it with an error dialog; otherwise both results
\* are stored.
perform_calculation ==
    /\ main_open
    /\ btn_calculate
    /\ single_col' = combo_single
    /\ corr_col1' = combo_corr1
    /\ corr_col2' = combo_corr2
    /\ IF combo_single = "Activity" \/ combo_single = "Time"
       THEN /\ last' = [op |-> "perform_calculation", outcome |-> "warning", data |-> NoData]
            /\ UNCHANGED <<stats_result, corr_result>>
       ELSE IF calculate_statistics(df, combo_single).raised
       THEN /\ last' = [op |-> "perform_calculation", outcome |-> "critical",
                        data |-> [error |-> calculate_statistics(df, combo_single).error]]
            /\ UNCHANGED <<stats_result, corr_result>>
       ELSE /\ stats_result' = Stored(calculate_statistics(df, combo_single))
            /\ corr_result' = Stored(calculate_correlation(df, combo_corr1, combo_corr2))
            /\ last' = [op |-> "perform_calculation", outcome |-> "ok", data |-> NoData]
    /\ UNCHANGED <<df, current_file, buttons, btn_calculate, combo_items, combo_single,
                   combo_corr1, combo_corr2, plot_windows, text_windows, main_open>>

\* A PlotWindow or TextWindow of the window lists: its class and whether it
\* is open.  What a window shows is recorded in last when it is opened.
Window(kind) == [kind |-> kind, open |-> TRUE]
CloseAll(windows) == [i \in 1..Len(windows) |-> [windows[i] EXCEPT !.open = FALSE]]

\* open_statistics_window: a warning when there is no stats_result, else a
\* text window titled with single_col that shows stats_result.
open_statistics_window ==
    /\ main_open
    /\ buttons
    /\ IF ~stats_result.has
       THEN /\ last' = [op |-> "open_statistics_window", outcome |-> "warning", data |-> NoData]
            /\ UNCHANGED text_windows
       ELSE /\ Len(text_windows) < MaxWindows
            /\ text_windows' = Append(text_windows, Window("text"))
            /\ last' = [op |-> "open_statistics_window", outcome |-> "ok",
                        data |-> [title |-> single_col, shown |-> stats_result.value,
                                  records |-> NRows(df)]]
    /\ UNCHANGED <<df, current_file, buttons, btn_calculate, combo_items, combo_single,
                   combo_corr1, combo_corr2, single_col, corr_col1, corr_col2,
                   stats_result, corr_result, plot_windows, main_open>>

\* open_correlation_window: the same for corr_result.
open_correlation_window ==
    /\ main_open
    /\ buttons
    /\ IF ~corr_result.has
       THEN /\ last' = [op |-> "open_correlation_window", outcome |-> "warning", data |-> NoData]
            /\ UNCHANGED text_windows
       ELSE /\ Len(text_windows) < MaxWindows
            /\ text_windows' = Append(text_windows, Window("text"))
            /\ last' = [op |-> "open_correlation_window", outcome |-> "ok",
                        data |-> [title |-> <<corr_col1, corr_col2>>,
                                  shown |-> corr_result.value]]
    /\ UNCHANGED <<df, current_file, buttons, btn_calculate, combo_items, combo_single,
                   combo_corr1, combo_corr2, single_col, corr_col1, corr_col2,
                   stats_result, corr_result, plot_windows, main_open>>

\* open_density_plot, open_histogram_plot, open_boxplot_iqr, open_boxplot_std:
\* a warning when the selected column fails validate_numeric_column, else a
\* plot window.
PlotKinds == {"density", "histogram", "boxplot_iqr", "boxplot_std"}
open_column_plot(kind) ==
    /\ main_open
    /\ buttons
    /\ IF validate_numeric_column(df, combo_single) # ""
       THEN /\ last' = [op |-> kind, outcome |-> "warning",
                        data |-> [warning |-> validate_numeric_column(df, combo_single)]]
            /\ UNCHANGED plot_windows
       ELSE /\ Len(plot_windows) < MaxWindows
            /\ plot_windows' = Append(plot_windows, Window("plot"))
            /\ last' = [op |-> kind, outcome |-> "ok", data |-> [title |-> combo_single]]
    /\ UNCHANGED <<df, current_file, buttons, btn_calculate, combo_items, combo_single,
                   combo_corr1, combo_corr2, single_col, corr_col1, corr_col2,
                   stats_result, corr_result, text_windows, main_open>>

\* open_scatter_plot
open_scatter_plot ==
    /\ main_open
    /\ buttons
    /\ IF validate_two_columns(df, combo_corr1, combo_corr2) # ""
       THEN /\ last' = [op |-> "scatter", outcome |-> "warning",
                        data |-> [warning |-> validate_two_columns(df, combo_corr1, combo_corr2)]]
            /\ UNCHANGED plot_windows
       ELSE /\ Len(plot_windows) < MaxWindows
            /\ plot_windows' = Append(plot_windows, Window("plot"))
            /\ last' = [op |-> "scatter", outcome |-> "ok",
                        data |-> [title |-> <<combo_corr1, combo_corr2>>]]
    /\ UNCHANGED <<df, current_file, buttons, btn_calculate, combo_items, combo_single,
                   combo_corr1, combo_corr2, single_col, corr_col1, corr_col2,
                   stats_result, corr_result, text_windows, main_open>>

\* open_forecast_plot(model_name, model, lag): the selected column is
\* validated, a series shorter than 2 * lag is refused with a warning, an
\* exception of the body is shown as an error, and otherwise the window with
\* the test values, the predictions and the metrics is opened and recorded.
ModelNames == {"Linear Regression", "Random Forest", "Decision Tree"}
open_forecast_plot(model_name, lag) ==
    /\ main_open
    /\ buttons
    /\ IF validate_numeric_column(df, combo_single) # ""
       THEN /\ last' = [op |-> "open_forecast_plot", outcome |-> "warning",
                        data |-> [model |-> model_name, column |-> combo_single,
                                  dialog |-> validate_numeric_column(df, combo_single),
                                  windows_before |-> Len(plot_windows),
                                  run |-> NoRun]]
            /\ UNCHANGED plot_windows
       ELSE LET run == ForecastRun(DropNa(Col(df, combo_single)), lag)
            IN  /\ last' = [op |-> "open_forecast_plot",
                            outcome |-> IF run.shown THEN "ok"
                                        ELSE IF run.built THEN "critical" ELSE "warning",
                            data |-> [model |-> model_name, column |-> combo_single,
                                      dialog |-> ForecastDialog(run),
                                      windows_before |-> Len(plot_windows),
                                      run |-> run]]
                /\ IF run.shown
                   THEN /\ Len(plot_windows) < MaxWindows
                        /\ plot_windows' = Append(plot_windows,
                                                  Window("plot"))
                   ELSE UNCHANGED plot_windows
    /\ UNCHANGED <<df, current_file, buttons, btn_calculate, combo_items, combo_single,
                   combo_corr1, combo_corr2, single_col, corr_col1, corr_col2,
                   stats_result, corr_result, text_windows, main_open>>

\* open_linear_regression_plot, open_random_forest_plot,
\* open_decision_tree_plot: each calls open_forecast_plot with lag=7.
open_forecast_button(model_name) == open_forecast_plot(model_name, Lag)

\* closeEvent: every plot and text window is closed, then the user is asked;
\* Yes accepts the event (the main window closes), No ignores it.
closeEvent(reply) ==
    /\ main_open
    /\ plot_windows' = CloseAll(plot_windows)
    /\ text_windows' = CloseAll(text_windows)
    /\ main_open' = (reply # "Yes")
    /\ last' = [op |-> "closeEvent", outcome |-> reply, data |-> NoData]
    /\ UNCHANGED <<df, current_file, buttons, btn_calculate, combo_items, combo_single,
                   combo_corr1, combo_corr2, single_col, corr_col1, corr_col2,
                   stats_result, corr_result>>

(***************************************************************************)
(* The sheets of the session and the specification                         *)
(***************************************************************************)
\* The sheets on the user's disk.
Files ==
    {Sheet("expected", "dates", "labels", v) : v \in SeqsUpTo({Num(1), Text}, MaxRows)}
    \cup {Sheet("foreign", "gap", "codes", <<Num(1), Num(3)>>),
          Sheet("expected", "text", "labels", <<Num(1), Num(3)>>),
          WideSheet(<<Num(1)>>), NarrowSheet(<<Num(1)>>), Unreadable,
          SeriesSheet(2 * Lag, "ramp")}

ColumnChoices == {expected_columns[i] : i \in 1..Len(expected_columns)}

\* The session of loading sheets, selecting the statistics column,
\* calculating and reading the results.
Next ==
    \/ LoadCancelled
    \/ \E f \in Files : LoadFails(f)
    \/ \E f \in Files : LoadSucceeds(f)
    \/ \E c \in ColumnChoices : SelectSingle(c)
    \/ perform_calculation
    \/ open_statistics_window
    \/ open_correlation_window

Spec == Init /\ [][Next]_vars

\* The state in which load_file leaves a new window on a sheet that loads.
Loaded(file) ==
    /\ df = LoadOutcome(NoFrame, file).df
    /\ current_file = file.name
    /\ buttons = TRUE
    /\ btn_calculate = TRUE
    /\ combo_items = expected_columns
    /\ combo_single = "Volume"
    /\ combo_corr1 = "Volume"
    /\ combo_corr2 = "Time"
    /\ single_col = Unset
    /\ corr_col1 = Unset
    /\ corr_col2 = Unset
    /\ stats_result = NoAttr
    /\ corr_result = NoAttr
    /\ plot_windows = <<>>
    /\ text_windows = <<>>
    /\ main_open = TRUE
    /\ last = [op |-> "load_file", outcome |-> "ok", data |-> [file |-> file.name]]

\* Calculations on a loaded sheet: every sheet of up to MaxCalcRows rows
\* whose first load succeeds, every pair of correlation columns.
MaxCalcRows == 3
CalcFiles ==
    {Sheet("expected", tk, ck, v) :
        tk \in {"dates", "gap"}, ck \in {"labels", "codes", "gap"},
        v \in SeqsUpTo({Num(1), Num(2), Text}, MaxCalcRows)}

InitCalc == \E f \in CalcFiles : Loaded(f)

NextCalc ==
    \/ \E c \in ColumnChoices : SelectCorr1(c)
    \/ \E c \in ColumnChoices : SelectCorr2(c)
    \/ perform_calculation

SpecCalc == InitCalc /\ [][NextCalc]_vars

\* Forecasts on a loaded series sheet, with every lag up to MaxLag.
SeriesFiles == {SeriesSheet(n, shape) : n \in 0..MaxLen, shape \in {"ramp", "saw"}}

InitForecast == \E f \in SeriesFiles : Loaded(f)

NextForecast ==
    \/ \E c \in ColumnChoices : SelectSingle(c)
    \/ \E m \in ModelNames, lag \in 1..MaxLag : open_forecast_plot(m, lag)
    \/ \E m \in ModelNames : open_forecast_button(m)

SpecForecast == InitForecast /\ [][NextForecast]_vars

\* Statistics of a loaded sheet: every value column of up to MaxStatRows
\* values.
MaxStatRows == 5
StatValues == {Num(-2), Num(1), Num(2), Num(4)}
ScenarioColumns == {<<Num(2), Num(4), Num(1), Num(3), Num(2)>>,
                    <<Num(4), Num(1), Num(3), Num(2)>>}
StatFiles ==
    {Sheet("expected", "dates", "labels", v) :
        v \in SeqsUpTo(StatValues, MaxStatRows) \cup ScenarioColumns}

InitStats == \E f \in StatFiles : Loaded(f)

NextStats ==
    \/ perform_calculation
    \/ open_statistics_window

SpecStats == InitStats /\ [][NextStats]_vars

\* The three engines in one session: sheets are loaded, the statistics
\* column is selected, results are calculated and forecasts are requested,
\* with the lag of the buttons and with the least lag.
EngineFiles ==
    {Sheet("expected", "dates", "labels", <<Num(1), Num(2)>>),
     Sheet("expected", "dates", "labels", <<Num(1)>>),
     Sheet("expected", "dates", "labels", <<Text>>),
     SeriesSheet(2 * Lag, "ramp"),
     WideSheet(<<Num(1)>>)}

NextEngines ==
    \/ \E f \in EngineFiles : LoadFails(f)
    \/ \E f \in EngineFiles : LoadSucceeds(f)
    \/ \E c \in ColumnChoices : SelectSingle(c)
    \/ perform_calculation
    \/ \E m \in ModelNames : open_forecast_plot(m, 1)
    \/ \E m \in ModelNames : open_forecast_button(m)

SpecEngines == Init /\ [][NextEngines]_vars

\* The whole window: every button and the close request, on a few sheets.
WindowFiles ==
    {Sheet("expected", "dates", "labels", <<Num(1), Num(2)>>),
     SeriesSheet(2 * Lag, "ramp"),
     WideSheet(<<Num(1)>>),
     Unreadable}

NextWindows ==
    \/ LoadCancelled
    \/ \E f \in WindowFiles : LoadFails(f)
    \/ \E f \in WindowFiles : LoadSucceeds(f)
    \/ perform_calculation
    \/ open_statistics_window
    \/ open_correlation_window
    \/ \E kind \in PlotKinds : open_column_plot(kind)
    \/ open_scatter_plot
    \/ \E m \in ModelNames : open_forecast_button(m)
    \/ \E reply \in {"Yes", "No"} : closeEvent(reply)

SpecWindows == Init /\ [][NextWindows]_vars

(***************************************************************************)
(* Properties                                                              *)
(***************************************************************************)
LoadedNow == last.op = "load_file" /\ last.outcome = "ok"
Calculated == last.op = "perform_calculation" /\ last.outcome = "ok"
Forecast == last.op = "open_forecast_plot"
Run == last.data.run

\* C1: right after a successful load_file no result of an earlier
\* calculation is left: neither stats_result nor corr_result exists, so the
\* result windows have nothing of the previous dataset to show.
C1_ResultsDiscardedOnLoad ==
    LoadedNow => ~stats_result.has /\ ~corr_result.has

\* C2: whenever the analysis and plot buttons are enabled, self.df has exactly
\* the three expected columns.
C2_ThreeExpectedColumns ==
    buttons => ~df.none /\ df.names = expected_columns

\* C3: right after a successful load_file the value column holds no missing
\* value.
C3_NoMissingValueAfterLoad ==
    LoadedNow => \A i \in 1..NRows(df) : Col(df, "Volume")[i].k = "num"

\* The rows in which neither column is missing (a missing timestamp is NaT).
ValidPairs(frame, a, b) ==
    Cardinality({i \in 1..NRows(frame) : NotNa(Col(frame, a)[i]) /\ NotNa(Col(frame, b)[i])})

\* C4: with fewer than 2 rows that are not missing in both columns,
\* calculate_correlation returns the error record, and a perform_calculation
\* that completes has stored that error record as corr_result.
C4_FewPairsGiveErrorRecord ==
    /\ \A a, b \in Columns(df) :
          ValidPairs(df, a, b) < 2 => calculate_correlation(df, a, b).is_error
    /\ (Calculated /\ ValidPairs(df, corr_col1, corr_col2) < 2)
          => corr_result.has /\ corr_result.value.is_error

\* C5: calculate_statistics raises for a column that is not in the frame, for
\* a column that is empty once its missing values are dropped, for a column
\* that is not numeric, and always for the timestamp and category columns.
C5_StatisticsRaises ==
    ~df.none =>
        \A c \in ColumnChoices \cup {"Missing"} :
            (\/ c \notin Columns(df)
             \/ c \in {"Time", "Activity"}
             \/ Len(DropNa(Col(df, c))) = 0
             \/ ~IsNumericDtype(Dtype(df, c)))
            => calculate_statistics(df, c).raised

\* C6: a forecast request on a series shorter than 2 * lag ends with the
\* warning before any work: no lag rows, no split, no fit, no metrics, and no
\* window is opened or added to plot_windows.
C6_ShortSeriesRejected ==
    (Forecast /\ Run.checked /\ Len(Run.data) < 2 * Run.lag) =>
        /\ last.outcome = "warning"
        /\ ~Run.built /\ Run.X = <<>> /\ Run.y = <<>>
        /\ ~Run.split /\ ~Run.fitted /\ ~Run.metrics /\ ~Run.shown
        /\ Len(plot_windows) = last.data.windows_before
C6_Witness ==
    /\ Forecast /\ Run.checked /\ Run.lag = Lag
    /\ Len(Run.data) > Run.lag /\ Len(Run.data) < 2 * Run.lag
    /\ last.outcome = "warning"

\* C7: for a series of length L >= 2 * lag the lag rows are L - lag rows of
\* lag values; row i holds series[i], ..., series[i + lag - 1] in that order
\* and its label is series[i + lag].
C7_LagFeatures ==
    (Forecast /\ Run.checked /\ Len(Run.data) >= 2 * Run.lag) =>
        /\ Run.built
        /\ Len(Run.X) = Len(Run.data) - Run.lag
        /\ Len(Run.y) = Len(Run.data) - Run.lag
        /\ \A i \in 1..(Len(Run.data) - Run.lag) :
              /\ Len(Run.X[i]) = Run.lag
              /\ \A j \in 1..Run.lag : Run.X[i][j] = Run.data[i + j - 1]
              /\ Run.y[i] = Run.data[i + Run.lag]
C7_Witness ==
    /\ Forecast /\ Run.built /\ Run.lag = Lag
    /\ Len(Run.data) > 2 * Lag
    /\ Run.X[1] # Run.X[2]
    /\ Run.y[1] = Run.data[Lag + 1]

\* C8: the split is chronological: with split = floor(0.8 * len(X)) the
\* training rows are rows 1..split and the test rows are the rest, in their
\* order, for X and for y; every request with the buttons' lag is split; 14
\* points with lag 7 give 5 training rows and 2 test rows.
C8_ChronologicalSplit ==
    /\ (Forecast /\ Run.built /\ Run.lag = Lag) => Run.split
    /\ (Forecast /\ Run.split) =>
        LET n == Len(Run.X)
            split == (4 * n) \div 5
        IN  /\ Run.X_train = SubSeq(Run.X, 1, split)
            /\ Run.X_test = SubSeq(Run.X, split + 1, n)
            /\ Run.y_train = SubSeq(Run.y, 1, split)
            /\ Run.y_test = SubSeq(Run.y, split + 1, n)
            /\ Len(Run.X_train) + Len(Run.X_test) = n
            /\ (Len(Run.data) = 14 /\ Run.lag = 7)
                  => Len(Run.X_train) = 5 /\ Len(Run.X_test) = 2
C8_Witness ==
    /\ Forecast /\ Run.split
    /\ Len(Run.data) = 14 /\ Run.lag = 7
    /\ Len(Run.X_train) = 5 /\ Len(Run.y_train) = 5
    /\ Len(Run.X_test) = 2 /\ Len(Run.y_test) = 2

\* C9 as stated: the number of test rows is floor(0.2 * len(X)).
C9_TestRowsFloor ==
    (Forecast /\ Run.split) => Len(Run.X_test) = Len(Run.X) \div 5

\* C9 as amended: the number of test rows is ceil(0.2 * len(X)), which is
\* len(X) - floor(0.8 * len(X)).
C9_TestRowsCeiling ==
    (Forecast /\ Run.split) =>
        LET n == Len(Run.X)
            t == Len(Run.X_test)
        IN  /\ Len(Run.y_test) = t
            /\ t = n - ((4 * n) \div 5)
            /\ 5 * t >= n /\ 5 * (t - 1) < n
C9_Witness ==
    /\ Forecast /\ Run.split /\ Run.lag = Lag
    /\ Len(Run.X) % 5 # 0
    /\ Len(Run.X_test) > Len(Run.X) \div 5

\* Two results of calculate_correlation agree: both are error records, or
\* they have the same r, strength, significance and number of pairs.
SameAssessment(p, q) ==
    IF p.is_error \/ q.is_error THEN p.is_error /\ q.is_error
    ELSE /\ p.r = q.r
         /\ p.strength = q.strength
         /\ p.p_value = q.p_value
         /\ p.n_pairs = q.n_pairs

\* C10: calculate_correlation(a, b) and calculate_correlation(b, a) agree for
\* every pair of columns of the dataset, the timestamp column included: for
\* every pair on each dataset as it is loaded, and for the stored result of
\* each perform_calculation against the result for the swapped selection.
C10_CorrelationSymmetric ==
    /\ LoadedNow =>
          \A a, b \in ColumnChoices :
              SameAssessment(calculate_correlation(df, a, b), calculate_correlation(df, b, a))
    /\ (Calculated /\ corr_result.has) =>
          SameAssessment(corr_result.value, calculate_correlation(df, corr_col2, corr_col1))
C10_Witness ==
    /\ corr_result.has /\ ~corr_result.value.is_error
    /\ corr_col1 = "Time" /\ corr_col2 = "Volume"
    /\ ~corr_result.value.r.nan
    /\ corr_result.value.r.sq \notin {RInt(0), RInt(1)}
    /\ corr_result.value = calculate_correlation(df, corr_col1, corr_col2)

\* The stored result of the last perform_calculation that completed.
Result == corr_result.value
HasResult == corr_result.has /\ ~corr_result.value.is_error

\* C11: for every column of a dataset with at least 2 rows,
\* calculate_correlation(c, c) is a non-error result whose coefficient is 1.
C11_SelfCorrelationIsOne ==
    NRows(df) >= 2 =>
        \A c \in ColumnChoices :
            LET res == calculate_correlation(df, c, c)
            IN  ~res.is_error /\ ~res.r.nan /\ res.r.sign = 1 /\ res.r.sq = RInt(1)

\* C12: every non-error result of calculate_correlation carries a
\* coefficient that is a number of [-1, 1], never an undefined one.
C12_CoefficientInRange ==
    HasResult => ~Result.r.nan /\ RLeq(Result.r.sq, RInt(1))

\* The square of t = |r| * sqrt((n - 2) / (1 - r^2)), for r^2 < 1.
TSquared(r, n) ==
    Rat(r.sq.n * (n - 2), r.sq.d - r.sq.n)
\* The bucket the thresholds 3.5, 2.6 and 1.96 give: an infinite t is in the
\* first, an undefined t in the last.
Bucket(r, n) ==
    IF r.nan THEN "> 0.05"
    ELSE IF r.sq = RInt(1) THEN "< 0.001"
    ELSE IF RLess(Rat(1225, 100), TSquared(r, n)) THEN "< 0.001"
    ELSE IF RLess(Rat(676, 100), TSquared(r, n)) THEN "< 0.01"
    ELSE IF RLess(Rat(38416, 10000), TSquared(r, n)) THEN "< 0.05"
    ELSE "> 0.05"

\* C13 as stated: every non-error result, with any number n >= 2 of pairs,
\* carries the label of the bucket of t, one of exactly four.
C13_FourBuckets ==
    HasResult =>
        /\ Result.p_value \in {"< 0.001", "< 0.01", "< 0.05", "> 0.05"}
        /\ Result.p_value = Bucket(Result.r, Result.n_pairs)

\* C13 as amended: with more than 2 pairs the label is the bucket of t, one
\* of exactly four; with exactly 2 pairs it is the fifth label "not enough
\* data".
C13_FourBucketsAboveTwoPairs ==
    HasResult =>
        /\ Result.n_pairs >= 2
        /\ Result.n_pairs > 2 => Result.p_value = Bucket(Result.r, Result.n_pairs)
        /\ Result.n_pairs = 2 => Result.p_value = "not enough data"
C13_Witness ==
    /\ Calculated /\ HasResult
    /\ Result.n_pairs > 2
    /\ ~Result.r.nan /\ Result.r.sq \notin {RInt(0), RInt(1)}
    /\ Result.p_value = "> 0.05"

\* The two columns are numbers in every row, more than 2 of them, and the
\* points lie on one line of negative slope.
OnFallingLine(frame, a, b) ==
    LET xs == CorrelationData(frame, a)
        ys == CorrelationData(frame, b)
        n == Len(xs)
        x(i) == Val(xs[i])
        y(i) == Val(ys[i])
    IN  /\ n > 2
        /\ \A i \in 1..n : xs[i].k = "num" /\ ys[i].k = "num"
        /\ RLess(RMul(RSub(x(2), x(1)), RSub(y(2), y(1))), RInt(0))
        /\ \A i \in 1..n :
              RMul(RSub(x(i), x(1)), RSub(y(2), y(1)))
                  = RMul(RSub(y(i), y(1)), RSub(x(2), x(1)))

\* C14: a result with r = 1 or r = -1 over more than 2 pairs carries the
\* label of the first bucket, and two columns that lie on a falling line
\* (r = -1) give such a result, not an error record.
C14_PerfectCorrelationHighlySignificant ==
    /\ (HasResult /\ ~Result.r.nan /\ Result.r.sq = RInt(1) /\ Result.n_pairs > 2)
          => Result.p_value = "< 0.001"
    /\ (Calculated /\ OnFallingLine(df, corr_col1, corr_col2))
          => /\ HasResult
             /\ ~Result.r.nan /\ Result.r.sign = -1 /\ Result.r.sq = RInt(1)
             /\ Result.p_value = "< 0.001"
C14_Witness ==
    /\ Calculated /\ HasResult
    /\ OnFallingLine(df, corr_col1, corr_col2)
    /\ Result.r.sign = -1 /\ Result.n_pairs > 2
    /\ Result.p_value = "< 0.001"

\* The summary stored by perform_calculation and the values it summarises.
HasSummary == stats_result.has /\ single_col = "Volume"
Stats == stats_result.value
Volumes == Vals(Col(df, "Volume"))

\* C15: in a summary the coefficient of variation is absent exactly when the
\* mean is 0, and skewness, kurtosis and the label of the skewness are absent
\* exactly when there are at most 2 values.
C15_OptionalFields ==
    HasSummary =>
        /\ Stats.count = Len(Volumes)
        /\ ~Stats.has_cv <=> RSum(Volumes) = RInt(0)
        /\ ~Stats.has_skewness <=> Len(Volumes) <= 2
        /\ ~Stats.has_kurtosis <=> Len(Volumes) <= 2
        /\ ~Stats.has_skew_label <=> Len(Volumes) <= 2
C15_Witness ==
    /\ HasSummary
    /\ Stats.count = 2 /\ Stats.mean = RInt(0)
    /\ ~Stats.has_cv /\ ~Stats.has_skewness

\* C16: for a column of at least 4 values q1 <= q2 <= q3, iqr = q3 - q1 >= 0,
\* the variance is a number >= 0, q2 is the median, and the fences lie outside
\* the quartiles.
C16_QuartileOrder ==
    (HasSummary /\ Stats.count >= 4) =>
        /\ RLeq(Stats.q1, Stats.q2) /\ RLeq(Stats.q2, Stats.q3)
        /\ Stats.iqr = RSub(Stats.q3, Stats.q1) /\ RLeq(RInt(0), Stats.iqr)
        /\ Stats.variance.k = "num" /\ RLeq(RInt(0), Val(Stats.variance))
        /\ Stats.q2 = Stats.median
        /\ RLeq(Stats.outlier_lower, Stats.q1) /\ RLeq(Stats.q3, Stats.outlier_upper)
C16_Witness ==
    /\ HasSummary /\ Stats.count = 4
    /\ RLess(Stats.q1, Stats.q2) /\ RLess(Stats.q2, Stats.q3)
    /\ \A i \in 1..Len(Volumes) : Volumes[i] # Stats.q2
    /\ RLess(RInt(0), Val(Stats.variance))

\* C17: the median is the middle of the sorted values (the mean of the two
\* middle ones for an even count), the quartiles interpolate linearly, the
\* fences are q1 - 1.5 iqr and q3 + 1.5 iqr; 1, 2, 2, 3, 4 in any order give
\* count 5, sum 12, mean 2.4, median 2, mode 2 alone, q1 2, q3 3, iqr 1,
\* fences 0.5 and 4.5, variance 1.3; 1, 2, 3, 4 give median 2.5, q1 1.75,
\* q3 3.25.
C17_SummaryValues ==
    HasSummary =>
        /\ 2 * Cardinality({i \in 1..Len(Volumes) : RLeq(Volumes[i], Stats.median)})
              >= Len(Volumes)
        /\ 2 * Cardinality({i \in 1..Len(Volumes) : RLeq(Stats.median, Volumes[i])})
              >= Len(Volumes)
        /\ RMul(RInt(2), Stats.outlier_lower)
              = RSub(RMul(RInt(2), Stats.q1), RMul(RInt(3), Stats.iqr))
        /\ RMul(RInt(2), Stats.outlier_upper)
              = RAdd(RMul(RInt(2), Stats.q3), RMul(RInt(3), Stats.iqr))
        /\ Sorted(Volumes) = <<RInt(1), RInt(2), RInt(2), RInt(3), RInt(4)>> =>
              /\ Stats.count = 5 /\ Stats.sum = RInt(12) /\ Stats.mean = Rat(12, 5)
              /\ Stats.median = RInt(2)
              /\ Stats.mode = RInt(2) /\ Stats.extra_modes = <<>>
              /\ Stats.q1 = RInt(2) /\ Stats.q3 = RInt(3) /\ Stats.iqr = RInt(1)
              /\ Stats.outlier_lower = Rat(1, 2) /\ Stats.outlier_upper = Rat(9, 2)
              /\ Stats.variance = NumR(Rat(13, 10))
        /\ Sorted(Volumes) = <<RInt(1), RInt(2), RInt(3), RInt(4)>> =>
              /\ Stats.median = Rat(5, 2)
              /\ Stats.q1 = Rat(7, 4) /\ Stats.q3 = Rat(13, 4)
C17_Witness ==
    /\ HasSummary
    /\ Volumes = <<RInt(2), RInt(4), RInt(1), RInt(3), RInt(2)>>
    /\ Stats.mean = Rat(12, 5) /\ Stats.variance = NumR(Rat(13, 10))

\* C18: for a column with exactly one value a summary holds no number as
\* variance or as standard deviation: both are undefined.
C18_VarianceUndefinedForOne ==
    (HasSummary /\ Len(Volumes) = 1) =>
        Stats.variance.k = "nan" /\ Stats.std_squared.k = "nan"
C18_Witness ==
    /\ HasSummary /\ Stats.count = 1 /\ Len(Volumes) = 1
    /\ Stats.variance.k = "nan"
    /\ last.op = "open_statistics_window" /\ last.outcome = "ok"

\* C19: perform_calculation (calculate_statistics, calculate_correlation) and
\* open_forecast_plot leave self.df as it was, whether they succeed, are
\* refused or fail.
C19_DatasetReadOnly ==
    [][last'.op \in {"perform_calculation", "open_forecast_plot"} => df' = df]_vars
C19_Witness ==
    /\ Calculated
    /\ HasResult /\ "Time" \in {corr_col1, corr_col2}
    /\ stats_result.has
    /\ df = LoadOutcome(NoFrame, SeriesSheet(2 * Lag, "ramp")).df
    /\ Len(plot_windows) = 1

\* C20: a forecast request that is refused or fails, and a
\* perform_calculation that is refused or whose statistics raise, leave
\* stats_result and corr_result as they were.
C20_FailureKeepsResults ==
    [][(last'.op \in {"perform_calculation", "open_forecast_plot"} /\ last'.outcome # "ok")
          => stats_result' = stats_result /\ corr_result' = corr_result]_vars
C20_Witness ==
    /\ last.op = "perform_calculation" /\ last.outcome = "critical"
    /\ stats_result.has /\ corr_result.has
    /\ Len(plot_windows) = 1

\* C21: a call of perform_calculation either replaces both stats_result and
\* corr_result by the results of this call, or changes neither; it never
\* stores the statistics alone.
C21_NoPartialResult ==
    [][last'.op = "perform_calculation" =>
          \/ /\ stats_result' = Stored(calculate_statistics(df, combo_single))
             /\ corr_result' = Stored(calculate_correlation(df, combo_corr1, combo_corr2))
          \/ /\ stats_result' = stats_result
             /\ corr_result' = corr_result]_vars
C21_Witness ==
    /\ Calculated
    /\ stats_result.has /\ ~stats_result.value.raised
    /\ corr_result.has /\ corr_result.value.is_error
    /\ NRows(df) = 1

\* C22: whenever stats_result exists it was computed for the column
\* single_col names, so the statistics window is never titled with a column
\* perform_calculation refuses to compute statistics for (the timestamp and
\* category columns), also after a perform_calculation that was refused or
\* failed.
C22_ResultsMatchSelection ==
    /\ stats_result.has => single_col \notin {"Time", "Activity"}
    /\ (last.op = "open_statistics_window" /\ last.outcome = "ok")
          => last.data.title \notin {"Time", "Activity"}

\* C23: a load_file that fails leaves self.df and current_file as they were.
C23_FailedLoadKeepsDataset ==
    [][(last'.op = "load_file" /\ last'.outcome = "critical")
          => df' = df /\ current_file' = current_file]_vars

\* C24: for every lag >= 1 and every series the length check accepts, the
\* split gives a training set and a test set that are not empty, the model is
\* fitted and the forecast window with its metrics is shown, not an error.
C24_AcceptedSeriesIsForecast ==
    (Forecast /\ Run.checked /\ Run.lag >= 1 /\ Len(Run.data) >= 2 * Run.lag) =>
        /\ Run.split
        /\ Len(Run.X_train) > 0 /\ Len(Run.X_test) > 0
        /\ Run.fitted /\ Run.metrics /\ Run.shown
        /\ last.outcome = "ok"

\* C25: the buttons start disabled, become enabled only by a load_file that
\* succeeds, and whenever a button is enabled self.df is not None; no
\* analysis, plot or forecast handler has run while self.df was None.
C25_ButtonsOnlyWithDataset ==
    /\ ~buttons /\ ~btn_calculate
    /\ []((buttons \/ btn_calculate) => ~df.none)
    /\ [](df.none => last.op \in {"__init__", "load_file", "closeEvent"})
    /\ [][((buttons' /\ ~buttons) \/ (btn_calculate' /\ ~btn_calculate))
             => (last'.op = "load_file" /\ last'.outcome = "ok")]_vars
C25_Witness ==
    /\ buttons /\ btn_calculate /\ ~df.none
    /\ last.op \in PlotKinds /\ last.outcome = "ok"
    /\ current_file # NoFile

\* C26: when the close request is answered No, the main window stays open
\* and the plot and text windows are as they were before the request.
C26_DecliningCloseChangesNothing ==
    [][(last'.op = "closeEvent" /\ last'.outcome = "No")
          => main_open' /\ plot_windows' = plot_windows /\ text_windows' = text_windows]_vars

====
